---- MODULE Spec2Model ----
(***************************************************************************)
(* bb-rubric-transfer: LTI 1.3 launch verification (src/src/lti.js), the   *)
(* signed-cookie codecs (lti.js and oauth.js) and the three-legged OAuth   *)
(* token broker (src/src/oauth.js).                                        *)
(*                                                                         *)
(* Time is counted in whole minutes: Date.now() is `now`, and every        *)
(* duration of the source (60 s, 5 min, 1 h, 8 h) is given in minutes.     *)
(* Strings are strings; a cookie value or any other string that the code   *)
(* splits on '.' is the sequence of its '.'-separated segments.            *)
(***************************************************************************)
EXTENDS Integers, Sequences, FiniteSets, Bags, TLC

VARIABLES
  now,        \* Date.now()
  envSecret,  \* process.env.LTI_COOKIE_SECRET, or Undefined
  cdata,      \* codec run: the object handed to signCookie
  cminter,    \* codec run: the module whose signCookie minted ("lti" | "oauth")
  cminted,    \* codec run: the cookie value signCookie returned
  ccookie,    \* codec run: the cookie value presented to verifyCookie
  cverifier,  \* codec run: the module whose verifyCookie ran
  cout,       \* codec run: what verifyCookie returned
  cnow,       \* codec run: the Date.now() verifyCookie read
  cpc,        \* codec run: "sign" -> "present" -> "verify" -> "done"
  reg,        \* what getRegistration() returns: NoReg or the Registration
  nonces,     \* lti.js `nonces`: nonce -> Date.now() at issue
  drawn,      \* how many nonces crypto.randomBytes has produced so far
  nextSweep,  \* when the setInterval sweep fires next
  loginRes,   \* the response of the last /login
  pending,    \* the /launch requests suspended at fetchPublicKey: a bag of id_tokens
  launchRes,  \* how the /launch that ended last ended
  accepted,   \* per nonce value, how many launches passed the nonce check
  jar,        \* the browser's lti_session cookie
  calls,      \* getTokenFromCookie calls suspended at the refresh POST: a bag of sessions
  tokenRes,   \* how the getTokenFromCookie call that ended last ended
  ostates,    \* the OAuthState payloads /oauth/start has minted, in order
  exchanges,  \* the /oauth/callback requests suspended at the code exchange: a bag
  cbRes,      \* how the /oauth/callback that ended last ended
  passed,     \* per minted state value, how many callbacks passed the state check
  rest,       \* the Blackboard REST call a UI request made last
  latest,     \* the platform: the refresh token it issued last
  boot        \* the process start: how many restarts, and what had been issued by then

codecVars == <<cdata, cminter, cminted, ccookie, cverifier, cout, cnow, cpc>>
launchVars == <<reg, nonces, drawn, nextSweep, loginRes, pending, launchRes, accepted>>
tokenVars == <<jar, calls, tokenRes, rest, latest>>
oauthVars == <<ostates, exchanges, cbRes, passed>>
vars == <<now, envSecret, boot, codecVars, launchVars, tokenVars, oauthVars>>

\* ---------------------------------------------------------------- bounds
MaxTime == 4        \* codec and token runs: the clock runs over 1..MaxTime
MaxClock == 2       \* launch runs: the clock runs over 1..MaxClock
MaxLogins == 2      \* /login requests that draw a nonce
MaxLaunch == 2      \* /launch requests in flight at once
MaxCalls == 2       \* getTokenFromCookie calls in flight at once
MaxExpiresIn == 3   \* the platform's expires_in ranges over 0..MaxExpiresIn (minutes)
MaxStarts == 2      \* /oauth/start requests
MaxRestarts == 1    \* process restarts
MaxIssues == 1      \* restart runs: /login requests, and /oauth/start requests
MaxRotations == 2   \* rotation runs: refresh grants the platform honours

\* ---------------------------------------------------------------- JS values
Undefined == "undefined"           \* the JS value undefined, for string-valued places
Null == [null |-> TRUE]            \* the JS value null, as a function result
NoCookie == <<>>                   \* an absent (or empty) cookie: falsy

\* ---------------------------------------------------------------- JSON, base64url, HMAC
\* Property order of the objects the code builds (insertion order).
FieldOrder ==
  <<"state", "courseId", "ts", "access_token", "refresh_token", "token_exp", "exp">>
StringFields == {"state", "courseId", "access_token", "refresh_token"}

\* JSON.stringify(data): the own properties in order, as <<key, value>> pairs;
\* a property whose value is undefined is left out.
JsonStringify(data) ==
  LET keys == SelectSeq(FieldOrder, LAMBDA k :
                  /\ k \in DOMAIN data
                  /\ ~(k \in StringFields /\ data[k] = Undefined))
  IN  [i \in 1..Len(keys) |-> <<keys[i], data[keys[i]]>>]

\* JSON.parse(text) of a text JsonStringify produced.
JsonParse(text) ==
  [k \in {text[i][1] : i \in DOMAIN text} |->
      text[CHOOSE i \in DOMAIN text : text[i][1] = k][2]]

\* Buffer.from(s).toString('base64url')
ToBase64url(text) == <<"b64", text>>
\* A segment that is no base64url of a JSON text: decoding it and parsing throws.
Junk == <<"junk">>
\* The empty segment (the string ''), falsy.
EmptySeg == <<"">>
\* The segment a destructuring reads past the end of split('.'): undefined.
UndefinedSeg == <<"undefined">>
IsJsonSegment(seg) == Len(seg) = 2 /\ seg[1] = "b64"
FromBase64url(seg) == seg[2]

\* crypto.createHmac('sha256', secret).update(payload).digest('base64url'):
\* an ideal MAC, a different value for every (secret, message).
Hmac(secret, payload) == <<"hmac", secret, payload>>

\* String.prototype.split('.') then [payload, sig] = ...
SegmentAt(cookie, i) == IF i <= Len(cookie) THEN cookie[i] ELSE UndefinedSeg
Falsy(seg) == seg = EmptySeg \/ seg = UndefinedSeg

\* ---------------------------------------------------------------- secrets
LTI_DEFAULT_SECRET == "change-me-in-production"
OAUTH_DEFAULT_SECRET == "change-me"
EnvSecrets == {Undefined, "env-secret"}
AttackerSecret == "attacker-secret"

LtiCookieSecret == IF envSecret = Undefined THEN LTI_DEFAULT_SECRET ELSE envSecret
OauthCookieSecret == IF envSecret = Undefined THEN OAUTH_DEFAULT_SECRET ELSE envSecret

\* ---------------------------------------------------------------- lti.js codec
LtiSignCookie(data, secret) ==
  LET payload == ToBase64url(JsonStringify(data))
      sig == Hmac(secret, payload)
  IN  <<payload, sig>>

\* lti.js verifyCookie without its signature comparison.
LtiVerifyCookie_NoSigCheck(cookie, secret) ==
  IF cookie = NoCookie THEN Null
  ELSE LET payload == SegmentAt(cookie, 1)
       IN  IF IsJsonSegment(payload) THEN JsonParse(FromBase64url(payload))
           ELSE Null

LtiVerifyCookie(cookie, secret) ==
  IF cookie = NoCookie THEN Null
  ELSE LET payload == SegmentAt(cookie, 1)
           sig == SegmentAt(cookie, 2)
           expected == Hmac(secret, payload)
       IN  IF sig # expected THEN Null
           ELSE IF IsJsonSegment(payload) THEN JsonParse(FromBase64url(payload))
           ELSE Null

\* ---------------------------------------------------------------- oauth.js codec
\* oauth.js signCookie with the HMAC taken over the JSON text, not the payload.
OauthSignCookie_SignsJsonText(data) ==
  LET text == JsonStringify(data)
      payload == ToBase64url(text)
      sig == Hmac(OauthCookieSecret, text)
  IN  <<payload, sig>>

OauthSignCookie(data) ==
  LET payload == ToBase64url(JsonStringify(data))
      sig == Hmac(OauthCookieSecret, payload)
  IN  <<payload, sig>>

\* oauth.js verifyCookie without its exp test.
OauthVerifyCookie_NoExpiry(cookie, t) ==
  IF cookie = NoCookie THEN Null
  ELSE LET payload == SegmentAt(cookie, 1)
           sig == SegmentAt(cookie, 2)
           expected == Hmac(OauthCookieSecret, payload)
       IN  IF Falsy(payload) \/ Falsy(sig) THEN Null
           ELSE IF sig # expected THEN Null
           ELSE IF IsJsonSegment(payload) THEN JsonParse(FromBase64url(payload))
           ELSE Null

OauthVerifyCookie(cookie, t) ==
  IF cookie = NoCookie THEN Null
  ELSE LET payload == SegmentAt(cookie, 1)
           sig == SegmentAt(cookie, 2)
           expected == Hmac(OauthCookieSecret, payload)
       IN  IF Falsy(payload) \/ Falsy(sig) THEN Null
           ELSE IF sig # expected THEN Null
           ELSE IF IsJsonSegment(payload)
                THEN LET data == JsonParse(FromBase64url(payload))
                     IN  IF "exp" \in DOMAIN data /\ data.exp # 0 /\ data.exp < t
                         THEN Null
                         ELSE data
                ELSE Null

\* ---------------------------------------------------------------- the clock
Tick ==
  /\ now < MaxTime
  /\ now' = now + 1

\* ================================================================ lti.js
\* ---------------------------------------------------------------- registration
NoReg == [none |-> TRUE]        \* getRegistration() returned null
Registration ==
  [client_id |-> "client-1", platform_jwks_url |-> "https://platform/jwks"]

\* Dynamic registration (or the environment) provides the Registration.
Register ==
  /\ reg = NoReg
  /\ reg' = Registration
  /\ UNCHANGED <<now, envSecret, boot, codecVars, nonces, drawn, nextSweep, loginRes,
                 pending, launchRes, accepted, tokenVars, oauthVars>>

\* ---------------------------------------------------------------- durations (minutes)
NONCE_TTL == 5          \* 5 * 60 * 1000 ms
SWEEP_INTERVAL == 1     \* 60_000 ms
IDENTITY_TTL == 60      \* 3600_000 ms

\* ---------------------------------------------------------------- the nonce Map
NoncesHas(ns, n) == n \in DOMAIN ns
NoncesSet(ns, n, t) == [k \in DOMAIN ns \cup {n} |-> IF k = n THEN t ELSE ns[k]]
\* nonces.delete(n) that deletes nothing.
NoncesDelete_Keeps(ns, n) == ns
NoncesDelete(ns, n) == [k \in DOMAIN ns \ {n} |-> ns[k]]
\* the sweep deleting every v <= cutoff
NoncesSweep_Inclusive(ns, t) == [k \in {j \in DOMAIN ns : ~(ns[j] <= t - NONCE_TTL)} |-> ns[k]]
\* the setInterval callback: cutoff = Date.now() - 5 min; delete every v < cutoff
NoncesSweep(ns, t) == [k \in {j \in DOMAIN ns : ~(ns[j] < t - NONCE_TTL)} |-> ns[k]]

Sweep ==
  /\ now >= nextSweep
  /\ nonces' = NoncesSweep(nonces, now)
  /\ nextSweep' = nextSweep + SWEEP_INTERVAL
  /\ UNCHANGED <<now, envSecret, boot, codecVars, reg, drawn, loginRes, pending, launchRes,
                 accepted, tokenVars, oauthVars>>

\* Time passes; a timer that is due fires before the clock moves on.
TickLaunch ==
  /\ now < nextSweep
  /\ now < MaxClock
  /\ now' = now + 1
  /\ UNCHANGED <<envSecret, boot, codecVars, launchVars, tokenVars, oauthVars>>

\* ---------------------------------------------------------------- /login
\* login_hint as it arrives in query or body: absent, empty, well-formed, or
\* one that decodeURIComponent throws on.
MalformedHint == "%"
LoginHints == {Undefined, "", "abc123", MalformedHint}

\* How a /login ended: its status, the nonce of its redirect URL (0: none),
\* and the login_hint the request had.
LoginResponse(status, nonce, hint) == [status |-> status, nonce |-> nonce, hint |-> hint]
NoLoginResponse == LoginResponse(0, 0, Undefined)

\* handleLogin with the hint tested for presence only, an empty one let through.
Login_RedirectsOnEmptyHint(hint) ==
  /\ IF reg = NoReg
     THEN /\ loginRes' = LoginResponse(500, 0, hint)
          /\ UNCHANGED <<nonces, drawn>>
     ELSE /\ drawn < MaxLogins
          /\ LET nonce == drawn + 1
             IN  /\ drawn' = nonce
                 /\ nonces' = NoncesSet(nonces, nonce, now)
                 /\ loginRes' =
                      IF hint = Undefined THEN LoginResponse(400, 0, hint)
                      ELSE IF hint = MalformedHint THEN LoginResponse(500, 0, hint)
                      ELSE LoginResponse(302, nonce, hint)
  /\ UNCHANGED <<now, envSecret, boot, codecVars, reg, nextSweep, pending, launchRes,
                 accepted, tokenVars, oauthVars>>

\* handleLogin. The nonce is crypto.randomBytes(16): a value never drawn before.
Login(hint) ==
  /\ IF reg = NoReg
     THEN /\ loginRes' = LoginResponse(500, 0, hint)
          /\ UNCHANGED <<nonces, drawn>>
     ELSE /\ drawn < MaxLogins
          /\ LET nonce == drawn + 1
             IN  /\ drawn' = nonce
                 /\ nonces' = NoncesSet(nonces, nonce, now)
                 /\ loginRes' =
                      IF hint = Undefined \/ hint = "" THEN LoginResponse(400, 0, hint)
                      ELSE IF hint = MalformedHint THEN LoginResponse(500, 0, hint)
                      ELSE LoginResponse(302, nonce, hint)
  /\ UNCHANGED <<now, envSecret, boot, codecVars, reg, nextSweep, pending, launchRes,
                 accepted, tokenVars, oauthVars>>

\* ---------------------------------------------------------------- the platform's key set
J1 == [kid |-> "k1", key |-> "K1"]
J2 == [kid |-> "k2", key |-> "K2"]
\* A later key published under the kid of J1.
J1Rotated == [kid |-> "k1", key |-> "K3"]
\* What the GET of platform_jwks_url yields: a failure or a JWKS document.
JwksResponses ==
  {[err |-> "network error"], [err |-> "Unexpected token in JSON"],
   [keys |-> <<>>], [keys |-> <<J1>>], [keys |-> <<J1, J2>>],
   [keys |-> <<J2, J1, J1Rotated>>]}
KeysOf(fetched) ==
  IF "keys" \in DOMAIN fetched
  THEN {fetched.keys[i].key : i \in DOMAIN fetched.keys} ELSE {}

Min(S) == CHOOSE x \in S : \A y \in S : x <= y

\* fetchPublicKey taking the last entry of the requested kid, not the first.
FetchPublicKey_LastMatch(fetched, kid) ==
  IF "keys" \notin DOMAIN fetched THEN [ok |-> FALSE, message |-> fetched.err]
  ELSE LET keys == fetched.keys
           found == {i \in DOMAIN keys : keys[i].kid = kid}
       IN  IF found # {}
           THEN [ok |-> TRUE, key |-> keys[CHOOSE i \in found : \A j \in found : j <= i].key]
           ELSE IF Len(keys) > 0 THEN [ok |-> TRUE, key |-> keys[1].key]
           ELSE [ok |-> FALSE, message |-> "No matching JWK found"]

\* fetchPublicKey: keys.find(k => k.kid === kid) || keys[0]
FetchPublicKey(fetched, kid) ==
  IF "keys" \notin DOMAIN fetched THEN [ok |-> FALSE, message |-> fetched.err]
  ELSE LET keys == fetched.keys
           found == {i \in DOMAIN keys : keys[i].kid = kid}
       IN  IF found # {} THEN [ok |-> TRUE, key |-> keys[Min(found)].key]
           ELSE IF Len(keys) > 0 THEN [ok |-> TRUE, key |-> keys[1].key]
           ELSE [ok |-> FALSE, message |-> "No matching JWK found"]

\* ---------------------------------------------------------------- id_token
NoToken == [form |-> "missing"]          \* req.body.id_token absent or ''
MalformedToken == [form |-> "malformed"] \* header is no base64url JSON

LEARNER == "http://purl.imsglobal.org/vocab/lis/v2/membership#Learner"
INSTRUCTOR_ROLES ==
  {"http://purl.imsglobal.org/vocab/lis/v2/membership#Instructor",
   "http://purl.imsglobal.org/vocab/lis/v2/membership#ContentDeveloper",
   "http://purl.imsglobal.org/vocab/lis/v2/institution/person#Administrator",
   "http://purl.imsglobal.org/vocab/lis/v2/system/person#Administrator"}
INSTRUCTOR == "http://purl.imsglobal.org/vocab/lis/v2/membership#Instructor"
SYSADMIN == "http://purl.imsglobal.org/vocab/lis/v2/system/person#Administrator"

\* A JWT: `key` names the private key that signed it (for HS256, the key whose
\* public PEM served as the HMAC secret); aud is the set of its audiences
\* (a string claim is the one-element set).
Jwt(kid, alg, key, aud, exp, nonce) ==
  [form |-> "jwt", kid |-> kid, alg |-> alg, key |-> key, aud |-> aud,
   exp |-> exp, nonce |-> nonce]
WithRoles(tok, roles) == [k \in DOMAIN tok \cup {"roles"} |->
                            IF k = "roles" THEN roles ELSE tok[k]]
WithContext(tok, id) == [k \in DOMAIN tok \cup {"context"} |->
                            IF k = "context" THEN [id |-> id] ELSE tok[k]]

\* jsonwebtoken's verify(idToken, publicKey, {algorithms: ['RS256'], audience}),
\* check by check, in its order.
AlgorithmAllowed(tok) == tok.alg \in {"RS256"}
\* a signature check that accepts every signature
SignatureValid_Any(tok, publicKey) == TRUE
SignatureValid(tok, publicKey) == tok.key = publicKey
\* an expiry check that never fires (ignoreExpiration)
JwtExpired_Never(tok, t) == FALSE
JwtExpired(tok, t) == t >= tok.exp
\* an audience check that never fails (no audience option)
AudienceMatches_Any(tok, audience) == TRUE
AudienceMatches(tok, audience) == audience \in tok.aud

JwtVerify(tok, publicKey, audience, t) ==
  IF tok.form # "jwt" THEN "jwt malformed"
  ELSE IF ~AlgorithmAllowed(tok) THEN "invalid algorithm"
  ELSE IF ~SignatureValid(tok, publicKey) THEN "invalid signature"
  ELSE IF JwtExpired(tok, t) THEN "jwt expired"
  ELSE IF ~AudienceMatches(tok, audience) THEN "jwt audience invalid"
  ELSE "ok"

\* claims[...roles] || []
RolesOf(tok) == IF "roles" \in DOMAIN tok THEN tok.roles ELSE <<>>
\* roles.every(...) instead of roles.some(...)
IsInstructor_Every(roles) == \A i \in DOMAIN roles : roles[i] \in INSTRUCTOR_ROLES
IsInstructor(roles) == \E i \in DOMAIN roles : roles[i] \in INSTRUCTOR_ROLES
\* the course id left blank whatever the context claim
CourseIdOf_Blank(tok) == ""
\* context?.id || ''
CourseIdOf(tok) == IF "context" \in DOMAIN tok THEN tok.context.id ELSE ""

\* ---------------------------------------------------------------- /launch
NoFetch == [none |-> TRUE]
\* What a launch ended with: its response, and the token, key set and time
\* the handler saw.
Ended(tok, fetched, status, body, cookie, courseId, nonceOk, at) ==
  [token |-> tok, fetched |-> fetched, status |-> status, body |-> body,
   cookie |-> cookie, courseId |-> courseId, nonceOk |-> nonceOk, at |-> at]
NoLaunchResponse == Ended(NoToken, NoFetch, 0, "", NoCookie, "", FALSE, 0)

\* The handler up to its await: registration, id_token, header decode. A
\* launch that reaches the await joins `pending`.
LaunchBegin(tok) ==
  /\ BagCardinality(pending) < MaxLaunch
  /\ launchRes = NoLaunchResponse
  /\ IF reg = NoReg
     THEN /\ launchRes' = Ended(tok, NoFetch, 500, "Tool not registered",
                                NoCookie, "", FALSE, now)
          /\ UNCHANGED pending
     ELSE IF tok = NoToken
     THEN /\ launchRes' = Ended(tok, NoFetch, 400, "Missing id_token",
                                NoCookie, "", FALSE, now)
          /\ UNCHANGED pending
     ELSE IF tok.form # "jwt"
     THEN /\ launchRes' = Ended(tok, NoFetch, 400,
                                "LTI Launch Failed: Unexpected token in JSON",
                                NoCookie, "", FALSE, now)
          /\ UNCHANGED pending
     ELSE /\ pending' = pending (+) SetToBag({tok})
          /\ UNCHANGED launchRes
  /\ UNCHANGED <<now, envSecret, boot, codecVars, reg, nonces, drawn, nextSweep, loginRes,
                 accepted, tokenVars, oauthVars>>

\* A launch, with any of `tokens`, that arrives while no other is suspended.
LaunchBeginAlone(tokens) ==
  /\ pending = EmptyBag
  /\ launchRes = NoLaunchResponse
  /\ \E tok \in tokens : LaunchBegin(tok)

\* A launch, with any of `tokens`, that arrives at any time.
LaunchBeginAny(tokens) ==
  /\ launchRes = NoLaunchResponse
  /\ \E tok \in tokens : LaunchBegin(tok)

\* The handler from the await on, with one answer for a nonce that was issued
\* and is gone and another for a nonce that was never issued.
LaunchEnd_TellsReplay(tok, fetched, ns, t) ==
  LET k == FetchPublicKey(fetched, tok.kid)
      failed(msg) == Ended(tok, fetched, 400, "LTI Launch Failed: " \o msg,
                           NoCookie, "", FALSE, t)
  IN  IF ~k.ok THEN failed(k.message)
      ELSE LET v == JwtVerify(tok, k.key, reg.client_id, t)
           IN  IF v # "ok" THEN failed(v)
               ELSE IF ~NoncesHas(ns, tok.nonce)
               THEN Ended(tok, fetched, 400,
                          IF tok.nonce \in 1..drawn THEN "Nonce already used"
                          ELSE "Invalid or expired nonce",
                          NoCookie, "", FALSE, t)
               ELSE IF ~IsInstructor(RolesOf(tok))
               THEN Ended(tok, fetched, 403, "Access denied", NoCookie, "", TRUE, t)
               ELSE LET courseId == CourseIdOf(tok)
                        sessionData == [courseId |-> courseId, exp |-> t + IDENTITY_TTL]
                    IN  Ended(tok, fetched, 302, "/ui/home",
                              LtiSignCookie(sessionData, LtiCookieSecret),
                              courseId, TRUE, t)

\* The handler from the await on, once fetchPublicKey has settled with
\* `fetched`: it runs to its response without another suspension.
LaunchEnd(tok, fetched, ns, t) ==
  LET k == FetchPublicKey(fetched, tok.kid)
      failed(msg) == Ended(tok, fetched, 400, "LTI Launch Failed: " \o msg,
                           NoCookie, "", FALSE, t)
  IN  IF ~k.ok THEN failed(k.message)
      ELSE LET v == JwtVerify(tok, k.key, reg.client_id, t)
           IN  IF v # "ok" THEN failed(v)
               ELSE IF ~NoncesHas(ns, tok.nonce)
               THEN Ended(tok, fetched, 400, "Invalid or expired nonce",
                          NoCookie, "", FALSE, t)
               ELSE IF ~IsInstructor(RolesOf(tok))
               THEN Ended(tok, fetched, 403, "Access denied", NoCookie, "", TRUE, t)
               ELSE LET courseId == CourseIdOf(tok)
                        sessionData == [courseId |-> courseId, exp |-> t + IDENTITY_TTL]
                    IN  Ended(tok, fetched, 302, "/ui/home",
                              LtiSignCookie(sessionData, LtiCookieSecret),
                              courseId, TRUE, t)

\* The token passes every check of the handler but the nonce check: its key
\* was fetched, jwt.verify accepts it, and it has an instructor role.
ValidToken(tok, fetched, t) ==
  LET k == FetchPublicKey(fetched, tok.kid)
  IN  /\ k.ok
      /\ JwtVerify(tok, k.key, reg.client_id, t) = "ok"
      /\ IsInstructor(RolesOf(tok))

\* The handler deleting the nonce the token names as soon as it resumes, ahead
\* of jwt.verify.
LaunchResume_DeletesFirst(tok, fetched) ==
  /\ BagIn(tok, pending)
  /\ pending' = pending (-) SetToBag({tok})
  /\ LET end == LaunchEnd(tok, fetched, nonces, now)
     IN  /\ launchRes' = end
         /\ nonces' = NoncesDelete(nonces, tok.nonce)
         /\ accepted' = IF end.nonceOk
                        THEN [accepted EXCEPT ![tok.nonce] = @ + 1]
                        ELSE accepted
  /\ UNCHANGED <<now, envSecret, boot, codecVars, reg, drawn, nextSweep, loginRes, tokenVars, oauthVars>>

LaunchResume(tok, fetched) ==
  /\ BagIn(tok, pending)
  /\ pending' = pending (-) SetToBag({tok})
  /\ LET end == LaunchEnd(tok, fetched, nonces, now)
     IN  /\ launchRes' = end
         /\ nonces' = IF end.nonceOk THEN NoncesDelete(nonces, tok.nonce) ELSE nonces
         /\ accepted' = IF end.nonceOk
                        THEN [accepted EXCEPT ![tok.nonce] = @ + 1]
                        ELSE accepted
  /\ UNCHANGED <<now, envSecret, boot, codecVars, reg, drawn, nextSweep, loginRes, tokenVars, oauthVars>>

\* The response leaves the server: nothing of the ended launch remains.
LaunchDeliver ==
  /\ launchRes # NoLaunchResponse
  /\ launchRes' = NoLaunchResponse
  /\ UNCHANGED <<now, envSecret, boot, codecVars, reg, nonces, drawn, nextSweep, loginRes,
                 pending, accepted, tokenVars, oauthVars>>

\* ================================================================ oauth.js: getTokenFromCookie
TOKEN_MARGIN == 1       \* (expires_in - 60) seconds
SESSION_TTL == 480      \* 8 * 3600_000 ms

\* What cookieParser() leaves in req.cookies for a cookie sent as 'j:<json>':
\* the parsed JSON value, which is no string and has no split method.
JsonCookieValue == <<<<"json-cookie">>>>
IsString(cookie) == cookie # JsonCookieValue

\* What a call that threw ended with, in place of a return value.
Thrown == [threw |-> "TypeError: cookie.split is not a function"]

\* A property read: undefined when the object has no such property.
Has(obj, k) == obj # Null /\ k \in DOMAIN obj
\* A string property that is present and truthy.
Truthy(obj, k) == Has(obj, k) /\ obj[k] # Undefined /\ obj[k] # ""

\* The refresh token the platform has issued last, after it answered `resp`
\* to a grant: the one of the answer when it carries one.
Issued(resp, before) ==
  IF resp.ok /\ resp.refresh_token # Undefined /\ resp.refresh_token # ""
  THEN resp.refresh_token ELSE before

\* What the platform answers to the refresh_token grant: an error (a status
\* outside 2xx, or no answer), or a token response.
RefreshFailure == [ok |-> FALSE]
RefreshResponses ==
  {RefreshFailure}
  \cup {[ok |-> TRUE, access_token |-> a, refresh_token |-> r, expires_in |-> e] :
          a \in {"at2"}, r \in {"rt2", Undefined}, e \in 0..MaxExpiresIn}

\* { ...session, access_token, refresh_token: refresh_token || session.refresh_token,
\*   token_exp: Date.now() + (expires_in - 60) * 1000 }
Updated_SessionLast(session, resp, t) == session
\* the same with the session's own expiry renewed as well
Updated_SlidingExpiry(session, resp, t) ==
  [k \in DOMAIN session \cup {"access_token", "refresh_token", "token_exp"} |->
     IF k = "access_token" THEN resp.access_token
     ELSE IF k = "refresh_token"
          THEN (IF resp.refresh_token # Undefined /\ resp.refresh_token # ""
                THEN resp.refresh_token ELSE session.refresh_token)
     ELSE IF k = "token_exp" THEN t + (resp.expires_in - TOKEN_MARGIN)
     ELSE IF k = "exp" THEN t + SESSION_TTL
     ELSE session[k]]
Updated(session, resp, t) ==
  [k \in DOMAIN session \cup {"access_token", "refresh_token", "token_exp"} |->
     IF k = "access_token" THEN resp.access_token
     ELSE IF k = "refresh_token"
          THEN (IF resp.refresh_token # Undefined /\ resp.refresh_token # ""
                THEN resp.refresh_token ELSE session.refresh_token)
     ELSE IF k = "token_exp" THEN t + (resp.expires_in - TOKEN_MARGIN)
     ELSE session[k]]

\* How a call ended: what it was given, what it returned ({token} or null), the
\* cookie it set, and the token_exp that goes with the token it returned.
TokenEnded(cookie, session, refreshed, resp, result, setCookie, tokenExp, at) ==
  [cookie |-> cookie, session |-> session, refreshed |-> refreshed, resp |-> resp,
   result |-> result, setCookie |-> setCookie, tokenExp |-> tokenExp, at |-> at]
NoTokenResult == TokenEnded(NoCookie, Null, FALSE, RefreshFailure, Null, NoCookie, 0, 0)

\* getTokenFromCookie(req.cookies.lti_session, res) up to its await.
TokenBegin ==
  /\ BagCardinality(calls) < MaxCalls
  /\ tokenRes = NoTokenResult
  /\ LET session == IF IsString(jar) THEN OauthVerifyCookie(jar, now) ELSE Null
         ends(result, tokenExp) ==
           /\ tokenRes' = TokenEnded(jar, session, FALSE, RefreshFailure, result,
                                     NoCookie, tokenExp, now)
           /\ UNCHANGED calls
     IN  IF ~IsString(jar)
         THEN /\ tokenRes' = TokenEnded(jar, Null, FALSE, RefreshFailure, Thrown,
                                        NoCookie, 0, now)
              /\ UNCHANGED calls
         ELSE IF ~Truthy(session, "access_token") THEN ends(Null, 0)
         ELSE IF Has(session, "token_exp") /\ session.token_exp > now
         THEN ends([token |-> session.access_token], session.token_exp)
         ELSE IF ~Truthy(session, "refresh_token") THEN ends(Null, 0)
         ELSE /\ calls' = calls (+) SetToBag({[cookie |-> jar, session |-> session]})
              /\ UNCHANGED tokenRes
  /\ UNCHANGED <<now, envSecret, boot, codecVars, launchVars, jar, rest, latest, oauthVars>>

\* The call from its await on, once the POST has settled with `resp`; the
\* browser stores the cookie that setCookie sets.
TokenResume(call, resp) ==
  /\ BagIn(call, calls)
  /\ calls' = calls (-) SetToBag({call})
  /\ IF ~resp.ok
     THEN /\ tokenRes' = TokenEnded(call.cookie, call.session, TRUE, resp, Null,
                                    NoCookie, 0, now)
          /\ UNCHANGED jar
     ELSE LET updated == Updated(call.session, resp, now)
              cookie == OauthSignCookie(updated)
          IN  /\ jar' = cookie
              /\ tokenRes' = TokenEnded(call.cookie, call.session, TRUE, resp,
                                        [token |-> resp.access_token], cookie,
                                        updated.token_exp, now)
  /\ latest' = Issued(resp, latest)
  /\ UNCHANGED <<now, envSecret, boot, codecVars, launchVars, rest, oauthVars>>

\* requireToken goes on with the result: nothing of the ended call remains.
TokenDeliver ==
  /\ tokenRes # NoTokenResult
  /\ tokenRes' = NoTokenResult
  /\ UNCHANGED <<now, envSecret, boot, codecVars, launchVars, jar, calls, rest, latest, oauthVars>>

TickToken ==
  /\ now < MaxClock
  /\ Tick
  /\ UNCHANGED <<envSecret, boot, codecVars, launchVars, tokenVars, oauthVars>>

\* ---------------------------------------------------------------- routes/ui.js, rest/bbClient.js
\* A REST call: the bbClient function, whether the request was sent, the
\* Bearer token of its Authorization header, and the req.bbToken of the UI
\* request that made it.
RestCall(op, sent, bearer, bbToken) ==
  [op |-> op, sent |-> sent, bearer |-> bearer, bbToken |-> bbToken]
NoRestCall == RestCall("none", FALSE, Undefined, Undefined)

\* The bbClient functions the UI routes call: /ui/select-rubrics calls
\* listRubrics, /ui/import calls getRubric and createRubric.
RestOps == {"listRubrics", "getRubric", "createRubric"}

\* What the platform answers to bbClient's client_credentials grant.
APP_TOKEN == "app-token"
GrantResponses == {[ok |-> FALSE], [ok |-> TRUE, access_token |-> APP_TOKEN]}

\* getAccessToken(): resp.data.access_token of the client_credentials grant;
\* axios rejects when the grant fails.
GetAccessToken(grant) == IF grant.ok THEN grant.access_token ELSE Undefined

\* listRubrics(courseId), getRubric(courseId, rubricId), createRubric(destCourseId,
\* payload): each takes `const token = await getAccessToken()` and sends
\* Authorization: Bearer ${token}; the req.bbToken the route passes as a
\* further argument binds to no parameter. With the grant failed the function
\* throws before it sends anything.
BbClientCall(op, grant, bbToken) ==
  LET token == GetAccessToken(grant)
  IN  IF token = Undefined THEN RestCall(op, FALSE, Undefined, bbToken)
      ELSE RestCall(op, TRUE, token, bbToken)

\* A UI route behind requireToken: getTokenFromCookie returned { token },
\* req.bbToken = result.token, next(), and the route makes its REST call.
UiRest(op, grant) ==
  /\ Has(tokenRes.result, "token")
  /\ rest' = BbClientCall(op, grant, tokenRes.result.token)
  /\ tokenRes' = NoTokenResult
  /\ UNCHANGED <<now, envSecret, boot, codecVars, launchVars, jar, calls, latest, oauthVars>>

\* Nothing of the token broker is in flight; the platform has issued the
\* application a refresh token before.
TokenIdle ==
  /\ jar = NoCookie
  /\ calls = EmptyBag
  /\ tokenRes = NoTokenResult
  /\ rest = NoRestCall
  /\ latest = "rt1"

\* The TokenSession /oauth/callback mints (oauth.js:140-146), at some earlier
\* time, with or without a refresh token.
TokenSessions ==
  {[courseId |-> "course-1", access_token |-> "at1", refresh_token |-> r,
    token_exp |-> te, exp |-> e] :
      r \in {"rt1", Undefined}, te \in {1, MaxClock + 1}, e \in {1, MaxClock + SESSION_TTL}}

\* What the browser may hold as lti_session: nothing, a JSON cookie, a
\* TokenSession, the IdentitySession /launch set, a TokenSession signed by a
\* forger.
InitialJars ==
  {NoCookie, JsonCookieValue}
  \cup {OauthSignCookie(d) : d \in TokenSessions}
  \cup {LtiSignCookie([courseId |-> "course-1", exp |-> 1 + IDENTITY_TTL], LtiCookieSecret)}
  \cup {LtiSignCookie(d, AttackerSecret) : d \in TokenSessions}


\* ================================================================ oauth.js: /oauth/start, /oauth/callback
STATE_TTL == 10         \* maxAge: 10 * 60 * 1000

\* obj[k] in JS: undefined when the object has no such property.
Field(obj, k) == IF k \in DOMAIN obj THEN obj[k] ELSE Undefined

\* crypto.randomBytes(16).toString('hex'): a value never drawn before.
StateNames == <<"s1", "s2", "s3", "s4">>
StateIndex(state) ==
  IF \E i \in DOMAIN StateNames : StateNames[i] = state
  THEN CHOOSE i \in DOMAIN StateNames : StateNames[i] = state
  ELSE 0

\* GET /oauth/start?courseId=...: sets the oauth_state cookie
\* signCookie({ state, courseId, ts }) and redirects to the platform.
OAuthStart(courseId) ==
  /\ Len(ostates) < MaxStarts
  /\ ostates' = Append(ostates, [state |-> StateNames[Len(ostates) + 1],
                                 courseId |-> courseId, ts |-> now])
  /\ UNCHANGED <<now, envSecret, boot, codecVars, launchVars, tokenVars, exchanges, cbRes,
                 passed>>

\* What the platform answers to the authorization_code grant.
ExchangeFailures == {[ok |-> FALSE, err |-> "status 400"], [ok |-> FALSE, err |-> "network error"]}
ExchangeResponses ==
  ExchangeFailures
  \cup {[ok |-> TRUE, access_token |-> "at1", refresh_token |-> r, expires_in |-> e] :
          r \in {"rt1", Undefined}, e \in {0, MaxExpiresIn}}
NoExchange == [ok |-> FALSE, err |-> "none"]

\* The TokenSession of the callback with token_exp taken without the margin.
MintedSession_NoMargin(saved, resp, t) ==
  [courseId |-> Field(saved, "courseId"),
   access_token |-> resp.access_token,
   refresh_token |-> resp.refresh_token,
   token_exp |-> t + resp.expires_in,
   exp |-> t + SESSION_TTL]

\* The TokenSession the callback hands to setCookie (oauth.js:140-146).
MintedSession(saved, resp, t) ==
  [courseId |-> Field(saved, "courseId"),
   access_token |-> resp.access_token,
   refresh_token |-> resp.refresh_token,
   token_exp |-> t + (resp.expires_in - TOKEN_MARGIN),
   exp |-> t + SESSION_TTL]

\* How a callback ended: the request and when it arrived, what verifyCookie
\* gave, whether the exchange was sent and how it was answered, and the response.
CallbackEnded(cookie, state, error, began, saved, exchanged, resp, status, body, setCookie, cleared, threw, at) ==
  [cookie |-> cookie, state |-> state, error |-> error, began |-> began,
   saved |-> saved, exchanged |-> exchanged, resp |-> resp, status |-> status,
   body |-> body, setCookie |-> setCookie, cleared |-> cleared, threw |-> threw,
   at |-> at]
NoCallbackResponse ==
  CallbackEnded(NoCookie, Undefined, Undefined, 0, Null, FALSE, NoExchange, 0, "",
                NoCookie, FALSE, FALSE, 0)

\* GET /oauth/callback?code=...&state=...&error=... up to its await.
CallbackBegin(cookie, state, error) ==
  /\ cbRes = NoCallbackResponse
  /\ BagCardinality(exchanges) < MaxCalls
  /\ LET ends(saved, status, body, threw) ==
           /\ cbRes' = CallbackEnded(cookie, state, error, now, saved, FALSE, NoExchange,
                                     status, body, NoCookie, FALSE, threw, now)
           /\ UNCHANGED <<exchanges, passed>>
     IN  IF error # Undefined /\ error # ""
         THEN ends(Null, 400, "Authorization declined", FALSE)
         ELSE IF ~IsString(cookie)
         THEN ends(Null, 0, "TypeError: cookie.split is not a function", TRUE)
         ELSE LET saved == OauthVerifyCookie(cookie, now)
              IN  IF saved = Null THEN ends(saved, 400, "Invalid or expired OAuth state", FALSE)
                  ELSE IF Field(saved, "state") # state
                  THEN ends(saved, 400, "Invalid or expired OAuth state", FALSE)
                  ELSE /\ exchanges' = exchanges
                                       (+) SetToBag({[cookie |-> cookie, state |-> state,
                                                      began |-> now, saved |-> saved]})
                       /\ passed' = IF StateIndex(state) \in DOMAIN passed
                                    THEN [passed EXCEPT ![StateIndex(state)] =
                                                           IF @ < 2 THEN @ + 1 ELSE @]
                                    ELSE passed
                       /\ UNCHANGED cbRes
  /\ UNCHANGED <<now, envSecret, boot, codecVars, launchVars, tokenVars, ostates>>

\* The callback from its await on, once the exchange has settled with `resp`:
\* with the failure swallowed and the browser redirected all the same.
CallbackEnd_RedirectsOnFailure(ex, resp, t) ==
  CallbackEnded(ex.cookie, ex.state, Undefined, ex.began, ex.saved, TRUE, resp, 302,
                "/ui/home",
                IF resp.ok THEN OauthSignCookie(MintedSession(ex.saved, resp, t))
                ELSE NoCookie,
                TRUE, FALSE, t)

\* The callback from its await on, once the exchange has settled with `resp`.
CallbackEnd(ex, resp, t) ==
  IF ~resp.ok
  THEN CallbackEnded(ex.cookie, ex.state, Undefined, ex.began, ex.saved, TRUE, resp, 500,
                     "OAuth token exchange failed", NoCookie, TRUE, FALSE, t)
  ELSE CallbackEnded(ex.cookie, ex.state, Undefined, ex.began, ex.saved, TRUE, resp, 302,
                     "/ui/home", OauthSignCookie(MintedSession(ex.saved, resp, t)),
                     TRUE, FALSE, t)

\* The browser stores the lti_session cookie that setCookie sets.
CallbackResume(ex, resp) ==
  /\ BagIn(ex, exchanges)
  /\ exchanges' = exchanges (-) SetToBag({ex})
  /\ LET end == CallbackEnd(ex, resp, now)
     IN  /\ cbRes' = end
         /\ jar' = IF end.setCookie # NoCookie THEN end.setCookie ELSE jar
  /\ latest' = Issued(resp, latest)
  /\ UNCHANGED <<now, envSecret, boot, codecVars, launchVars, calls, tokenRes, rest, ostates,
                 passed>>

\* The response leaves the server: nothing of the ended callback remains.
CallbackDeliver ==
  /\ cbRes # NoCallbackResponse
  /\ cbRes' = NoCallbackResponse
  /\ UNCHANGED <<now, envSecret, boot, codecVars, launchVars, tokenVars, ostates, exchanges,
                 passed>>

\* Time passes between requests: a minute more than the OAuthState cookie's
\* maxAge.
Durations == {STATE_TTL + 1}
Horizon == MaxClock + STATE_TTL
Elapse(d) ==
  /\ now + d <= Horizon
  /\ now' = now + d
  /\ UNCHANGED <<envSecret, boot, codecVars, launchVars, tokenVars, oauthVars>>

OAuthIdle ==
  /\ ostates = <<>>
  /\ exchanges = EmptyBag
  /\ cbRes = NoCallbackResponse
  /\ passed = [i \in 1..MaxStarts |-> 0]

LaunchIdle ==
  /\ reg = NoReg
  /\ nonces = <<>>
  /\ drawn = 0
  /\ nextSweep = 1 + SWEEP_INTERVAL
  /\ loginRes = NoLoginResponse
  /\ pending = EmptyBag
  /\ launchRes = NoLaunchResponse
  /\ accepted = [n \in 1..MaxLogins |-> 0]

CodecIdle ==
  /\ cdata = Null
  /\ cminter = "none"
  /\ cminted = NoCookie
  /\ ccookie = NoCookie
  /\ cverifier = "none"
  /\ cout = Null
  /\ cnow = 0
  /\ cpc = "idle"

\* ---------------------------------------------------------------- the process
\* What a process start leaves behind of the one before: how many restarts
\* there were, and what had been issued when the last one happened (the
\* nonces drawn, the OAuthState cookies minted, the cookie the browser held).
Boot(restarts, drawnBefore, startsBefore, jarBefore) ==
  [restarts |-> restarts, drawn |-> drawnBefore, starts |-> startsBefore, jar |-> jarBefore]
FirstBoot == Boot(0, 0, 0, NoCookie)

\* A restart that carries the nonce Map over.
Restart_KeepsNonces ==
  /\ boot.restarts < MaxRestarts
  /\ boot' = Boot(boot.restarts + 1, drawn, Len(ostates), jar)
  /\ nextSweep' = now + SWEEP_INTERVAL
  /\ pending' = EmptyBag
  /\ calls' = EmptyBag
  /\ exchanges' = EmptyBag
  /\ loginRes' = NoLoginResponse
  /\ launchRes' = NoLaunchResponse
  /\ tokenRes' = NoTokenResult
  /\ cbRes' = NoCallbackResponse
  /\ rest' = NoRestCall
  /\ UNCHANGED <<now, envSecret, codecVars, reg, nonces, drawn, accepted, jar, latest,
                 ostates, passed>>

\* The process stops and starts again with the same environment: the modules
\* are loaded anew (lti.js: `nonces = new Map()`, a new setInterval), the
\* requests that were suspended are gone; the environment, the registration
\* file and the browser's cookies stay.
Restart ==
  /\ boot.restarts < MaxRestarts
  /\ boot' = Boot(boot.restarts + 1, drawn, Len(ostates), jar)
  /\ nonces' = <<>>
  /\ nextSweep' = now + SWEEP_INTERVAL
  /\ pending' = EmptyBag
  /\ calls' = EmptyBag
  /\ exchanges' = EmptyBag
  /\ loginRes' = NoLoginResponse
  /\ launchRes' = NoLaunchResponse
  /\ tokenRes' = NoTokenResult
  /\ cbRes' = NoCallbackResponse
  /\ rest' = NoRestCall
  /\ UNCHANGED <<now, envSecret, codecVars, reg, drawn, accepted, jar, latest,
                 ostates, passed>>

\* ---------------------------------------------------------------- the launches that arrive
OTHER_CLIENT == "client-2"
Kids == {"k1", "k2"}
\* <<alg, signing key>>: the platform's keys, a forger's key, and HS256 keyed
\* with the platform's public key.
Sigs == {<<"RS256", "K1">>, <<"RS256", "K2">>, <<"RS256", "KA">>, <<"HS256", "K1">>}
Auds == {{Registration.client_id}, {OTHER_CLIENT}, {OTHER_CLIENT, Registration.client_id}}
Exps == {1, MaxClock + 1}
NonceClaims == 0..MaxLogins     \* 0: a nonce /login never issued
RoleClaims == {<<>>, <<LEARNER>>, <<INSTRUCTOR>>}

Launchable(jwt, roles) == WithContext(WithRoles(jwt, roles), "course-1")
\* A token that passes every check when its nonce is outstanding.
GoodJwt(nonce) ==
  Jwt("k1", "RS256", "K1", {Registration.client_id}, MaxClock + 1, nonce)

\* Tokens whose header and signature vary, with good claims but for exp and nonce.
SignatureTokens ==
  {Launchable(Jwt(kid, sig[1], sig[2], {Registration.client_id}, exp, nonce),
              <<INSTRUCTOR>>) :
      kid \in Kids, sig \in Sigs, exp \in Exps, nonce \in NonceClaims}
\* Tokens signed by the platform whose claims vary.
ClaimTokens ==
  {Launchable(Jwt("k1", "RS256", "K1", aud, exp, nonce), roles) :
      aud \in Auds, exp \in Exps, nonce \in NonceClaims, roles \in RoleClaims}
\* Tokens that lack a claim or the kid, and a token with several roles.
SparseTokens ==
  {WithContext(GoodJwt(nonce), "course-1") : nonce \in NonceClaims}
  \cup {WithRoles(GoodJwt(nonce), roles) : nonce \in NonceClaims,
           roles \in {<<INSTRUCTOR>>, <<LEARNER, SYSADMIN>>}}
  \cup {Launchable(Jwt(Undefined, "RS256", key, {Registration.client_id},
                       MaxClock + 1, nonce), <<INSTRUCTOR>>) :
           key \in {"K1", "K2"}, nonce \in NonceClaims}

LaunchTokens ==
  SignatureTokens \cup ClaimTokens \cup SparseTokens \cup {NoToken, MalformedToken}

\* Otherwise valid tokens, differing in the nonce they name and in their roles.
RaceTokens ==
  {Launchable(GoodJwt(nonce), roles) :
      nonce \in 1..MaxLogins, roles \in {<<INSTRUCTOR>>, <<LEARNER>>}}
RaceJwks == {[err |-> "network error"], [keys |-> <<J1>>]}

\* Tokens that stay unexpired over a clock that runs past the nonce TTL and a
\* sweep interval.
NonceHorizon == MaxClock + NONCE_TTL + SWEEP_INTERVAL
FreshJwt(nonce) ==
  Jwt("k1", "RS256", "K1", {Registration.client_id}, NonceHorizon + 1, nonce)
NonceTokens ==
  {Launchable(FreshJwt(nonce), roles) :
      nonce \in NonceClaims, roles \in {<<INSTRUCTOR>>, <<LEARNER>>}}

\* Time passes, up to NonceHorizon; a sweep that is due fires first, and a
\* key fetch settles within the minute, so that a launch is answered at
\* the time it arrived.
TickNonce ==
  /\ now < nextSweep
  /\ pending = EmptyBag
  /\ now < NonceHorizon
  /\ now' = now + 1
  /\ UNCHANGED <<envSecret, boot, codecVars, launchVars, tokenVars, oauthVars>>

\* ---------------------------------------------------------------- specifications
Init ==
  /\ now = 1
  /\ envSecret = "env-secret"
  /\ CodecIdle
  /\ LaunchIdle
  /\ TokenIdle
  /\ OAuthIdle
  /\ boot = FirstBoot

\* One launch at a time, any token, any key set.
Next ==
  \/ Register
  \/ \E hint \in LoginHints : Login(hint)
  \/ LaunchBeginAlone(LaunchTokens)
  \/ \E tok \in BagToSet(pending), fetched \in JwksResponses : LaunchResume(tok, fetched)
  \/ LaunchDeliver
  \/ Sweep
  \/ TickLaunch

Spec == Init /\ [][Next]_vars

\* Concurrent launches, suspended at their key fetch and resumed in any order.
NextRace ==
  \/ Register
  \/ Login("abc123")
  \/ LaunchBeginAny(RaceTokens)
  \/ \E tok \in BagToSet(pending), fetched \in RaceJwks : LaunchResume(tok, fetched)
  \/ LaunchDeliver
  \/ Sweep
  \/ TickLaunch

SpecRace == Init /\ [][NextRace]_vars

\* The life of a nonce: logins, launches one at a time, and the sweep, over a
\* clock that runs past the TTL.
NextNonce ==
  \/ Register
  \/ \E hint \in {"abc123", ""} : Login(hint)
  \/ LaunchBeginAlone(NonceTokens)
  \/ \E tok \in BagToSet(pending), fetched \in RaceJwks : LaunchResume(tok, fetched)
  \/ LaunchDeliver
  \/ Sweep
  \/ TickNonce

SpecNonce == Init /\ [][NextNonce]_vars

\* getTokenFromCookie calls on the cookie the browser holds.
InitToken ==
  /\ now = 1
  /\ envSecret = "env-secret"
  /\ CodecIdle
  /\ LaunchIdle
  /\ calls = EmptyBag
  /\ tokenRes = NoTokenResult
  /\ rest = NoRestCall
  /\ latest = "rt1"
  /\ jar \in InitialJars
  /\ OAuthIdle
  /\ boot = FirstBoot

NextToken ==
  \/ TokenBegin
  \/ \E call \in BagToSet(calls), resp \in RefreshResponses : TokenResume(call, resp)
  \/ TokenDeliver
  \/ TickToken

SpecToken == InitToken /\ [][NextToken]_vars

\* UI requests: requireToken reads the token, the route makes its REST call.
NextUi ==
  \/ TokenBegin
  \/ \E call \in BagToSet(calls), resp \in RefreshResponses : TokenResume(call, resp)
  \/ TokenDeliver
  \/ \E op \in RestOps, grant \in GrantResponses : UiRest(op, grant)

SpecUi == InitToken /\ [][NextUi]_vars

\* A platform that rotates refresh tokens: a grant that presents the refresh
\* token issued last is answered with a new access token and a new refresh
\* token, never issued before, and any other refresh token is refused.
RefreshNames == <<"rt1", "rt2", "rt3", "rt4", "rt5">>
RefreshIndex(r) == CHOOSE i \in DOMAIN RefreshNames : RefreshNames[i] = r
RotatingResponses(presented) ==
  IF presented = latest
  THEN {[ok |-> TRUE, access_token |-> "at2",
         refresh_token |-> RefreshNames[RefreshIndex(latest) + 1], expires_in |-> e] :
           e \in 0..MaxExpiresIn}
  ELSE {RefreshFailure}

\* The browser holds a TokenSession whose access token has expired and whose
\* refresh token is the one the platform issued last.
ExpiredAccessSession ==
  [courseId |-> "course-1", access_token |-> "at1", refresh_token |-> "rt1",
   token_exp |-> 1, exp |-> MaxClock + SESSION_TTL]
InitRotate ==
  /\ InitToken
  /\ jar = OauthSignCookie(ExpiredAccessSession)

\* Concurrent getTokenFromCookie calls against the rotating platform.
NextRotate ==
  \/ RefreshIndex(latest) <= MaxRotations /\ TokenBegin
  \/ \E call \in BagToSet(calls) :
       \E resp \in RotatingResponses(call.session.refresh_token) : TokenResume(call, resp)
  \/ TokenDeliver
  \/ TickToken

SpecRotate == InitRotate /\ [][NextRotate]_vars

\* The three-legged flow: /oauth/start, and /oauth/callback with any cookie and
\* any query.
IdentityCookie ==
  LtiSignCookie([courseId |-> "course-1", exp |-> 1 + IDENTITY_TTL], LtiCookieSecret)
CallbackCookies ==
  {NoCookie, JsonCookieValue, IdentityCookie, jar}
  \cup {OauthSignCookie(ostates[i]) : i \in DOMAIN ostates}
  \cup {LtiSignCookie(ostates[i], AttackerSecret) : i \in DOMAIN ostates}
CallbackStates ==
  {Undefined, "S1"} \cup {ostates[i].state : i \in DOMAIN ostates}
CallbackErrors == {Undefined, "access_denied"}

InitOAuth ==
  /\ now = 1
  /\ envSecret = "env-secret"
  /\ CodecIdle
  /\ LaunchIdle
  /\ TokenIdle
  /\ OAuthIdle
  /\ boot = FirstBoot

NextOAuth ==
  \/ \E courseId \in {"course-1", Undefined} : OAuthStart(courseId)
  \/ /\ cbRes = NoCallbackResponse
     /\ exchanges = EmptyBag
     /\ \E cookie \in CallbackCookies, state \in CallbackStates, error \in CallbackErrors :
          CallbackBegin(cookie, state, error)
  \/ \E ex \in BagToSet(exchanges), resp \in ExchangeResponses : CallbackResume(ex, resp)
  \/ CallbackDeliver
  \/ \E d \in Durations : Elapse(d)

SpecOAuth == InitOAuth /\ [][NextOAuth]_vars

\* Requests before and after a restart, one in flight at a time: logins and
\* launches, the three-legged flow with the cookies /oauth/start minted, and
\* token reads.
RestartTokens == {Launchable(GoodJwt(nonce), <<INSTRUCTOR>>) : nonce \in 1..MaxIssues}
RestartExchanges ==
  {r \in ExchangeResponses : r.ok => r.refresh_token = "rt1"} \ {[ok |-> FALSE, err |-> "status 400"]}
RestartRefreshes ==
  {r \in RefreshResponses : r.ok => (r.refresh_token = "rt2" /\ r.expires_in = MaxExpiresIn)}
\* No request is suspended and no response is on its way.
Quiet ==
  /\ pending = EmptyBag /\ calls = EmptyBag /\ exchanges = EmptyBag
  /\ launchRes = NoLaunchResponse /\ cbRes = NoCallbackResponse /\ tokenRes = NoTokenResult
NextRestart ==
  \/ Register
  \/ drawn < MaxIssues /\ Login("abc123")
  \/ Quiet /\ LaunchBeginAlone(RestartTokens)
  \/ \E tok \in BagToSet(pending) : LaunchResume(tok, [keys |-> <<J1>>])
  \/ LaunchDeliver
  \/ Len(ostates) < MaxIssues /\ OAuthStart("course-1")
  \/ /\ Quiet
     /\ \E i \in DOMAIN ostates :
          CallbackBegin(OauthSignCookie(ostates[i]), ostates[i].state, Undefined)
  \/ \E ex \in BagToSet(exchanges), resp \in RestartExchanges : CallbackResume(ex, resp)
  \/ CallbackDeliver
  \/ Quiet /\ TokenBegin
  \/ \E call \in BagToSet(calls), resp \in RestartRefreshes : TokenResume(call, resp)
  \/ TokenDeliver
  \/ Restart

SpecRestart == Init /\ [][NextRestart]_vars

\* Requests against a platform that may accept a connection and never
\* answer. Every step of the server that is ready to run is run (the event
\* loop); the steps that wait for the platform's answer (LaunchResume,
\* CallbackResume, TokenResume) are taken only if the answer comes: the GET
\* of fetchPublicKey and the two axios.post calls are made without a timeout.
NextLive ==
  \/ Register
  \/ drawn < MaxIssues /\ Login("abc123")
  \/ Quiet /\ LaunchBeginAlone(RestartTokens)
  \/ \E tok \in BagToSet(pending) : LaunchResume(tok, [keys |-> <<J1>>])
  \/ LaunchDeliver
  \/ Len(ostates) < MaxIssues /\ OAuthStart("course-1")
  \/ /\ Quiet
     /\ \E i \in DOMAIN ostates :
          CallbackBegin(OauthSignCookie(ostates[i]), ostates[i].state, Undefined)
  \/ \E ex \in BagToSet(exchanges), resp \in RestartExchanges : CallbackResume(ex, resp)
  \/ CallbackDeliver
  \/ Quiet /\ TokenBegin
  \/ \E call \in BagToSet(calls), resp \in RestartRefreshes : TokenResume(call, resp)
  \/ TokenDeliver

LiveFairness ==
  /\ WF_vars(LaunchDeliver)
  /\ WF_vars(CallbackDeliver)
  /\ WF_vars(TokenDeliver)

SpecLive == Init /\ [][NextLive]_vars /\ LiveFairness

\* ---------------------------------------------------------------- launch claims
\* A launch has ended with a response, and it carried a JWT.
JwtLaunchEnded == launchRes.status # 0 /\ launchRes.token.form = "jwt"
Verified == launchRes.status = 302
\* REJECTED: an error status and no session cookie.
Rejected == launchRes.status \in {400, 403, 500} /\ launchRes.cookie = NoCookie
RoleSet(tok) == {RolesOf(tok)[i] : i \in DOMAIN RolesOf(tok)}

\* C1: over any interleaving of concurrent launches that carry otherwise valid
\* tokens, the nonce check succeeds for at most one launch per issued nonce.
C1_NonceAcceptedAtMostOnce == \A n \in 1..MaxLogins : accepted[n] <= 1

\* C1 witness: a launch has just passed the nonce check while another launch
\* naming the same nonce is still suspended at its key fetch.
C1_Witness ==
  /\ launchRes.nonceOk
  /\ \E tok \in BagToSet(pending) : tok.nonce = launchRes.token.nonce

\* C5: a launch JWT whose exp is in the past ends REJECTED and mints no
\* IdentitySession, whatever its signature and whatever its nonce.
C5_ExpiredJwtRejected ==
  (JwtLaunchEnded /\ launchRes.token.exp < launchRes.at) => Rejected

\* C5 witness: a platform-signed token naming an outstanding nonce, with exp
\* in the past, was rejected as expired.
C5_Witness ==
  /\ JwtLaunchEnded
  /\ launchRes.token.exp < launchRes.at
  /\ launchRes.token.key \in KeysOf(launchRes.fetched)
  /\ NoncesHas(nonces, launchRes.token.nonce)
  /\ launchRes.status = 400
  /\ launchRes.body = "LTI Launch Failed: jwt expired"

\* C6: a launch JWT signed with a key that is not in the fetched key set ends
\* REJECTED, for every kid in its header.
C6_UnknownSignerRejected ==
  (/\ JwtLaunchEnded
   /\ "keys" \in DOMAIN launchRes.fetched
   /\ launchRes.token.key \notin KeysOf(launchRes.fetched)) => Rejected

\* C6 witness: a token signed by a forger, whose kid matches no entry so that
\* the first key of the set was taken, was rejected for its signature.
C6_Witness ==
  /\ JwtLaunchEnded
  /\ launchRes.fetched = [keys |-> <<J1>>]
  /\ launchRes.token.kid = "k2"
  /\ launchRes.token.key = "KA"
  /\ launchRes.token.alg = "RS256"
  /\ launchRes.body = "LTI Launch Failed: invalid signature"
  /\ Rejected

\* C7: a launch JWT whose aud claim does not name the Registration's
\* client_id (as the string, or as an entry of the array) ends REJECTED, even
\* when signature, time claims, nonce and roles are all valid.
C7_WrongAudienceRejected ==
  (JwtLaunchEnded /\ Registration.client_id \notin launchRes.token.aud) => Rejected

\* C7 witness: a platform-signed, unexpired, instructor token naming an
\* outstanding nonce, with another client's aud, was rejected.
C7_Witness ==
  /\ JwtLaunchEnded
  /\ launchRes.token.aud = {OTHER_CLIENT}
  /\ launchRes.token.key = "K1" /\ launchRes.token.alg = "RS256"
  /\ launchRes.fetched = [keys |-> <<J1>>]
  /\ launchRes.token.exp > launchRes.at
  /\ NoncesHas(nonces, launchRes.token.nonce)
  /\ RoleSet(launchRes.token) = {INSTRUCTOR}
  /\ launchRes.status = 400

\* C8: a launch ends VERIFIED only if its roles claim shares a role with the
\* instructor-equivalent set; a launch that passed every earlier check and
\* whose roles share none (or that has no roles claim) is answered 403 and
\* sets no session cookie.
C8_InstructorOnly ==
  /\ Verified => RoleSet(launchRes.token) \cap INSTRUCTOR_ROLES # {}
  /\ (JwtLaunchEnded /\ launchRes.nonceOk
        /\ RoleSet(launchRes.token) \cap INSTRUCTOR_ROLES = {})
       => (launchRes.status = 403 /\ launchRes.cookie = NoCookie)

\* C8 witness: an otherwise valid launch without a roles claim was answered 403.
C8_Witness ==
  /\ JwtLaunchEnded
  /\ "roles" \notin DOMAIN launchRes.token
  /\ launchRes.nonceOk
  /\ launchRes.status = 403

\* C14: a launch that ends REJECTED, for whatever reason, leaves the set of
\* outstanding nonces as it was: only a VERIFIED launch or the sweep deletes.
C14_RejectedLaunchKeepsNonces ==
  [][(launchRes' # launchRes /\ launchRes'.status \in {400, 403, 500})
        => nonces' = nonces]_vars

\* C15: /launch sets the session cookie only when the launch ends VERIFIED;
\* the cookie is then the signed IdentitySession whose courseId is the id of
\* the token's context claim ('' without one) and whose exp is the time of the
\* launch plus one hour. A launch that ends 400, 403 or 500 sets no cookie.
C15_CookieOnlyWhenVerified ==
  /\ launchRes.cookie # NoCookie => Verified
  /\ launchRes.status \in {400, 403, 500} => launchRes.cookie = NoCookie
  /\ Verified =>
       /\ launchRes.cookie # NoCookie
       /\ SegmentAt(launchRes.cookie, 2)
            = Hmac(LtiCookieSecret, SegmentAt(launchRes.cookie, 1))
       /\ LET set == JsonParse(FromBase64url(SegmentAt(launchRes.cookie, 1)))
          IN  /\ DOMAIN set = {"courseId", "exp"}
              /\ set.exp = launchRes.at + IDENTITY_TTL
              /\ set.courseId = IF "context" \in DOMAIN launchRes.token
                                THEN launchRes.token.context.id
                                ELSE ""

\* C15 witness: a launch with a context claim ended VERIFIED and set the cookie.
C15_Witness ==
  /\ Verified
  /\ "context" \in DOMAIN launchRes.token
  /\ launchRes.token.context.id = "course-1"
  /\ launchRes.cookie # NoCookie
  /\ launchRes.courseId = "course-1"

\* C22 as claimed: a launch whose key fetch failed (network or parsing) is
\* answered 500, and a callback whose token exchange failed is answered 500.
C22_UpstreamFailureIs500 ==
  /\ (JwtLaunchEnded /\ launchRes.fetched # NoFetch /\ "err" \in DOMAIN launchRes.fetched)
       => launchRes.status = 500
  /\ (cbRes.exchanged /\ ~cbRes.resp.ok) => cbRes.status = 500

\* C30: fetchPublicKey resolves to the first entry of the key set whose kid is
\* the requested one, to the first entry of the set when none has it, fails
\* with 'No matching JWK found' exactly when the set is empty, and fails with
\* the error of the fetch or of the parse when that failed. The launch is
\* judged with the key so resolved: its signature is found invalid exactly
\* when that key is not the one that signed the token, and a failure is
\* answered with the failure's message.
C30_KeyResolution ==
  (JwtLaunchEnded /\ launchRes.fetched # NoFetch) =>
    LET fetched == launchRes.fetched
        tok == launchRes.token
        k == FetchPublicKey(fetched, tok.kid)
    IN  /\ IF "keys" \notin DOMAIN fetched
           THEN ~k.ok /\ k.message = fetched.err
           ELSE LET keys == fetched.keys
                    matches == {i \in DOMAIN keys : keys[i].kid = tok.kid}
                IN  /\ matches # {} =>
                         /\ k.ok
                         /\ \E i \in matches :
                              k.key = keys[i].key /\ \A j \in matches : i <= j
                    /\ (matches = {} /\ keys # <<>>) => (k.ok /\ k.key = keys[1].key)
                    /\ ~k.ok <=> keys = <<>>
                    /\ ~k.ok => k.message = "No matching JWK found"
        /\ ~k.ok => (launchRes.status = 400
                       /\ launchRes.body = "LTI Launch Failed: " \o k.message)
        /\ (k.ok /\ tok.alg = "RS256") =>
             (launchRes.body = "LTI Launch Failed: invalid signature" <=> tok.key # k.key)

\* C30 witness: with two entries of the requested kid in the key set, behind
\* an entry of another kid, a token signed with the key of the first of the
\* two was verified.
C30_Witness ==
  /\ Verified
  /\ launchRes.fetched = [keys |-> <<J2, J1, J1Rotated>>]
  /\ launchRes.token.kid = "k1"
  /\ launchRes.token.key = "K1"

\* With every entry of another kid, a token signed with the key of the first
\* entry was verified.
C30_Fallback ==
  /\ Verified
  /\ launchRes.fetched = [keys |-> <<J1, J2>>]
  /\ launchRes.token.kid = Undefined
  /\ launchRes.token.key = "K1"

\* The launch was rejected before the handler reached its nonce check: without
\* a Registration, without an id_token or with one whose header does not
\* decode (no key was fetched), by a failed key fetch, or by jwt.verify.
RejectedBeforeNonceCheck(end) ==
  \/ end.fetched = NoFetch
  \/ LET k == FetchPublicKey(end.fetched, end.token.kid)
     IN  \/ ~k.ok
         \/ JwtVerify(end.token, k.key, Registration.client_id, end.at) # "ok"

\* C31: a launch that is rejected before the nonce check (no Registration, no
\* id_token, key fetch failure, bad signature, wrong audience, expired token)
\* is answered 400 or 500 without a cookie and leaves every outstanding nonce
\* outstanding, the one its token names included.
C31_EarlyRejectionKeepsNonce ==
  [][(launchRes = NoLaunchResponse /\ launchRes' # NoLaunchResponse
        /\ RejectedBeforeNonceCheck(launchRes'))
       => /\ launchRes'.status \in {400, 500}
          /\ launchRes'.cookie = NoCookie
          /\ ~launchRes'.nonceOk
          /\ nonces' = nonces
          /\ accepted' = accepted]_vars

\* C31 witness: a token signed by a key that is not the platform's, naming an
\* outstanding nonce, was rejected for its signature, and the nonce is still
\* outstanding.
C31_Witness ==
  /\ launchRes.body = "LTI Launch Failed: invalid signature"
  /\ launchRes.token.key = "KA"
  /\ NoncesHas(nonces, launchRes.token.nonce)

\* The same for a key fetch that failed.
C31_KeyFetchFailed ==
  /\ launchRes.body = "LTI Launch Failed: network error"
  /\ NoncesHas(nonces, launchRes.token.nonce)

\* ---------------------------------------------------------------- login claims
\* A /login is answered in this step.
LoginAnswered == loginRes' # NoLoginResponse /\ (loginRes' # loginRes \/ drawn' # drawn)
HintPresent(hint) == hint # Undefined /\ hint # ""

\* C23: /login answers 500 when no Registration is configured, 400 when a
\* Registration exists and login_hint is missing or empty, and 302 only when
\* a Registration exists and login_hint is present.
C23_LoginStatus ==
  [][LoginAnswered =>
       /\ reg = NoReg => loginRes'.status = 500
       /\ (reg # NoReg /\ ~HintPresent(loginRes'.hint)) => loginRes'.status = 400
       /\ loginRes'.status = 302 => (reg # NoReg /\ HintPresent(loginRes'.hint))]_vars

\* C23 witness: with a Registration in place, a /login whose login_hint is the
\* empty string was answered 400.
C23_Witness ==
  /\ reg # NoReg
  /\ loginRes.hint = ""
  /\ loginRes.status = 400

\* C32 as claimed: a /login that is answered 400 or 500 leaves the nonce Map
\* as it was; the Map gains an entry only in a /login answered with the
\* redirect.
C32_FailedLoginKeepsNonces ==
  [][LoginAnswered =>
       /\ loginRes'.status \in {400, 500} => nonces' = nonces
       /\ DOMAIN nonces' # DOMAIN nonces => loginRes'.status = 302]_vars

\* ---------------------------------------------------------------- nonce claims
\* What the client sees of a launch's response.
ResponseOf(end) == <<end.status, end.body, end.cookie>>
\* The nonce was issued by /login and is outstanding no more.
IssuedAndGone(n) == n \in 1..drawn /\ ~NoncesHas(nonces, n)

\* C21: the response of /launch to a token whose nonce was issued and has been
\* consumed or swept is the response (status, body, cookie) it gives to the
\* same token naming a nonce that was never issued.
C21_NoNonceOracle ==
  (JwtLaunchEnded /\ launchRes.fetched # NoFetch /\ ~launchRes.nonceOk
     /\ IssuedAndGone(launchRes.token.nonce))
    => ResponseOf(launchRes)
         = ResponseOf(LaunchEnd([launchRes.token EXCEPT !.nonce = 0],
                                launchRes.fetched, nonces, launchRes.at))

\* C21 witness: a valid token naming a nonce that the sweep removed (no launch
\* ever passed the nonce check with it) was answered as an unknown nonce is.
C21_Witness ==
  /\ JwtLaunchEnded
  /\ IssuedAndGone(launchRes.token.nonce)
  /\ accepted[launchRes.token.nonce] = 0
  /\ launchRes.status = 400
  /\ launchRes.body = "Invalid or expired nonce"

\* A launch that carried a JWT is answered in this step.
JwtLaunchAnswered ==
  launchRes' # launchRes /\ launchRes'.status # 0 /\ launchRes'.token.form = "jwt"

\* C27 as claimed: a launch that arrives more than 5 minutes after /login
\* issued the nonce it names is rejected as invalid or expired, wherever the
\* sweep timer stands. (Stated for the nonces still in the Map, whose time of
\* issue the Map holds; a nonce no longer in the Map is rejected, C21. In the
\* nonce runs a launch is answered in the minute it arrived.)
C27_NonceExpiresAfterTtl ==
  [][\A n \in DOMAIN nonces :
       (JwtLaunchAnswered /\ launchRes'.token.nonce = n /\ now - nonces[n] > NONCE_TTL)
         => (launchRes'.status = 400 /\ ~launchRes'.nonceOk)]_vars

\* The sweep runs in this step.
SweepRuns == nextSweep' = nextSweep + SWEEP_INTERVAL /\ boot' = boot

\* C28: each sweep removes every entry issued more than 5 minutes before it
\* and no other entry; no entry is in the Map longer than 5 minutes plus one
\* sweep interval after its issue; and a value that is not in the Map enters
\* it only by the /login that draws it.
C28_SweepExactAndBounded ==
  [][/\ SweepRuns =>
        /\ DOMAIN nonces' = {n \in DOMAIN nonces : ~(now - nonces[n] > NONCE_TTL)}
        /\ \A n \in DOMAIN nonces' : nonces'[n] = nonces[n]
     /\ \A n \in DOMAIN nonces' : now' - nonces'[n] <= NONCE_TTL + SWEEP_INTERVAL
     /\ \A n \in DOMAIN nonces' \ DOMAIN nonces :
          drawn' = drawn + 1 /\ n = drawn' /\ loginRes'.status # 500]_vars

\* C28 witness: the sweep that was due has run; it removed a nonce that no
\* launch had consumed and kept one issued exactly 5 minutes before.
C28_Witness ==
  /\ nextSweep > now
  /\ \E n \in DOMAIN nonces : now - nonces[n] = NONCE_TTL
  /\ \E m \in 1..drawn : ~NoncesHas(nonces, m) /\ accepted[m] = 0

\* Of the launches that carry a valid token naming tok's nonce, the suspended
\* launch of `tok` is the first to have arrived: no other launch naming the
\* nonce with an instructor role is suspended, and none was answered before,
\* since the only launch that ever passed the nonce check with it, if any, is
\* the one answered last, with 403.
FirstValidLaunch(tok) ==
  /\ CopiesIn(tok, pending) = 1
  /\ \A other \in BagToSet(pending) :
       (other.nonce = tok.nonce /\ IsInstructor(RolesOf(other))) => other = tok
  /\ \/ accepted[tok.nonce] = 0
     \/ /\ accepted[tok.nonce] = 1
        /\ launchRes.nonceOk
        /\ launchRes.token.nonce = tok.nonce
        /\ launchRes.status = 403

\* C29 as claimed: the nonce of a /login's redirect URL is the one that call
\* recorded as outstanding, and the first launch to arrive within the TTL
\* with a validly signed, unexpired, right-audience, instructor-role token
\* naming a nonce that /login issued (its key fetched) ends VERIFIED. (In the
\* race runs every /login succeeds and the clock stays within the TTL of
\* every nonce.)
C29_FirstValidLaunchVerified ==
  [][/\ (loginRes' # loginRes /\ loginRes'.status = 302) =>
          /\ ~NoncesHas(nonces, loginRes'.nonce)
          /\ NoncesHas(nonces', loginRes'.nonce)
          /\ nonces'[loginRes'.nonce] = now
     /\ \A tok \in BagToSet(pending) :
          (/\ JwtLaunchAnswered
           /\ launchRes'.token = tok
           /\ pending' = pending (-) SetToBag({tok})
           /\ ValidToken(tok, launchRes'.fetched, now)
           /\ tok.nonce \in 1..drawn
           /\ now - 1 <= NONCE_TTL
           /\ FirstValidLaunch(tok))
            => launchRes'.status = 302]_vars

\* ---------------------------------------------------------------- callback claims
CallbackAnswered == cbRes # NoCallbackResponse
\* The presented cookie is a string whose signature part is the HMAC of its
\* payload part under the process's secret, and whose payload part parses.
Verifies(cookie) ==
  /\ IsString(cookie)
  /\ cookie # NoCookie
  /\ IsJsonSegment(SegmentAt(cookie, 1))
  /\ SegmentAt(cookie, 2) = Hmac(OauthCookieSecret, SegmentAt(cookie, 1))
PayloadOf(cookie) == JsonParse(FromBase64url(SegmentAt(cookie, 1)))
StateMatches(cookie, state) ==
  Verifies(cookie) /\ Field(PayloadOf(cookie), "state") = state

\* C11: the callback sends the code exchange only when the presented
\* oauth_state cookie verifies and its state field equals the state query
\* value; with an absent cookie, an unverifiable cookie or a differing state it
\* answers 400, sends no exchange and sets no TokenSession cookie.
C11_StateCheckGuardsExchange ==
  /\ \A ex \in BagToSet(exchanges) : StateMatches(ex.cookie, ex.state)
  /\ cbRes.exchanged => StateMatches(cbRes.cookie, cbRes.state)
  /\ (CallbackAnswered /\ ~StateMatches(cbRes.cookie, cbRes.state)) =>
        /\ cbRes.status = 400
        /\ ~cbRes.exchanged
        /\ cbRes.setCookie = NoCookie

\* C12: each OAuthState minted by /oauth/start passes the state check of the
\* callback at most once.
C12_StateAcceptedAtMostOnce == \A i \in DOMAIN passed : passed[i] <= 1

\* C13: a callback that presents an OAuthState cookie and the matching state
\* more than 10 minutes after /oauth/start minted it is rejected with the
\* state-mismatch failure.
C13_StateExpiresAfterTenMinutes ==
  (/\ CallbackAnswered
   /\ cbRes.error = Undefined
   /\ StateMatches(cbRes.cookie, cbRes.state)
   /\ Has(PayloadOf(cbRes.cookie), "ts")
   /\ cbRes.began > PayloadOf(cbRes.cookie).ts + STATE_TTL)
  => (cbRes.status = 400 /\ cbRes.body = "Invalid or expired OAuth state")

\* C18: on a successful code exchange the callback sets a signed TokenSession
\* with token_exp = now + expires_in - 60 s, exp = now + 8 h, the access and
\* refresh tokens of the platform's response, and the courseId of the verified
\* oauth_state cookie.
C18_CallbackMintsTokenSession ==
  (cbRes.exchanged /\ cbRes.resp.ok) =>
     /\ cbRes.status = 302
     /\ Verifies(cbRes.setCookie)
     /\ jar = cbRes.setCookie
     /\ LET set == PayloadOf(cbRes.setCookie)
        IN  /\ set.token_exp = cbRes.at + cbRes.resp.expires_in - TOKEN_MARGIN
            /\ set.exp = cbRes.at + SESSION_TTL
            /\ set.access_token = cbRes.resp.access_token
            /\ Field(set, "refresh_token") = cbRes.resp.refresh_token
            /\ Field(set, "courseId") = Field(PayloadOf(cbRes.cookie), "courseId")

\* C18 witness: a callback on a cookie minted for course-1 has exchanged the
\* code and set the TokenSession, some time after the start.
C18_Witness ==
  /\ cbRes.exchanged /\ cbRes.resp.ok
  /\ cbRes.status = 302
  /\ Field(PayloadOf(cbRes.cookie), "state") = cbRes.state
  /\ Field(PayloadOf(cbRes.cookie), "courseId") = "course-1"
  /\ cbRes.resp.refresh_token = "rt1"
  /\ cbRes.resp.expires_in = MaxExpiresIn
  /\ PayloadOf(cbRes.setCookie).courseId = "course-1"
  /\ cbRes.at > 1

\* C19: when the platform answers the code exchange with a failure, the
\* callback answers 500 and sets no TokenSession cookie; a TokenSession cookie
\* is set only after a successful exchange.
C19_ExchangeFailureIs500 ==
  /\ (cbRes.exchanged /\ ~cbRes.resp.ok) =>
        (cbRes.status = 500 /\ cbRes.setCookie = NoCookie)
  /\ cbRes.setCookie # NoCookie => (cbRes.exchanged /\ cbRes.resp.ok)

\* C19 witness: an exchange that failed on the network ended with 500 and no
\* cookie.
C19_Witness ==
  /\ cbRes.exchanged
  /\ cbRes.resp = [ok |-> FALSE, err |-> "network error"]
  /\ cbRes.status = 500
  /\ cbRes.setCookie = NoCookie
  /\ jar = NoCookie


\* Some launch has passed the nonce check: every launch that ended VERIFIED has.
SomeLaunchPassed == \E n \in DOMAIN accepted : accepted[n] > 0
MintedByStart(cookie) == \E i \in DOMAIN ostates : cookie = OauthSignCookie(ostates[i])

\* C33 as claimed: the three-legged flow starts only after a VERIFIED launch.
\* An OAuthState is minted, a callback passes the state check and a
\* TokenSession is set only when some launch has been verified before.
C33_OAuthOnlyAfterVerifiedLaunch ==
  (ostates # <<>> \/ exchanges # EmptyBag \/ cbRes.setCookie # NoCookie \/ jar # NoCookie)
    => SomeLaunchPassed

\* C34 as claimed: only a cookie that /oauth/start minted passes the state
\* check of /oauth/callback, whatever the query of the request.
C34_OnlyMintedStatePasses ==
  /\ \A ex \in BagToSet(exchanges) : MintedByStart(ex.cookie)
  /\ cbRes.exchanged => MintedByStart(cbRes.cookie)

\* ---------------------------------------------------------------- token claims
\* C9: whenever getTokenFromCookie returns an access token, the token_exp that
\* goes with that token is strictly later than the current time, straight from
\* the cookie or after a refresh, for every expires_in.
C9_ReturnedTokenUnexpired ==
  Has(tokenRes.result, "token") => tokenRes.tokenExp > tokenRes.at

\* C10: when the session is unexpired, its access token expired, a refresh
\* token present and the refresh grant answered successfully, the call returns
\* the access token of the refresh response and sets a signed session cookie
\* carrying that access token, the response's refresh token and the new
\* token_exp.
C10_RefreshRotates ==
  (tokenRes.refreshed /\ tokenRes.resp.ok) =>
     /\ tokenRes.result = [token |-> tokenRes.resp.access_token]
     /\ tokenRes.setCookie # NoCookie
     /\ tokenRes.setCookie[2] = Hmac(OauthCookieSecret, tokenRes.setCookie[1])
     /\ LET set == JsonParse(FromBase64url(tokenRes.setCookie[1]))
        IN  /\ set.access_token = tokenRes.resp.access_token
            /\ set.token_exp = tokenRes.at + tokenRes.resp.expires_in - TOKEN_MARGIN
            /\ set.refresh_token =
                 IF tokenRes.resp.refresh_token # Undefined
                 THEN tokenRes.resp.refresh_token
                 ELSE tokenRes.session.refresh_token
            /\ set.exp = tokenRes.session.exp
            /\ set.courseId = tokenRes.session.courseId

\* C10 witness: a refresh that the platform answered with a new access token
\* and a new refresh token ended with the new access token returned.
C10_Witness ==
  /\ tokenRes.refreshed /\ tokenRes.resp.ok
  /\ tokenRes.session.access_token = "at1"
  /\ tokenRes.session.token_exp <= tokenRes.at
  /\ tokenRes.resp.refresh_token = "rt2"
  /\ tokenRes.result = [token |-> "at2"]
  /\ jar = tokenRes.setCookie

\* C16: a refresh changes only access_token, refresh_token and token_exp: the
\* cookie it sets has the courseId and the exp of the cookie that was presented,
\* and no other property besides.
C16_RefreshKeepsCourseAndExpiry ==
  (tokenRes.refreshed /\ tokenRes.setCookie # NoCookie) =>
     LET set == PayloadOf(tokenRes.setCookie)
         was == PayloadOf(tokenRes.cookie)
         rotated == {"access_token", "refresh_token", "token_exp"}
     IN  /\ DOMAIN set \ rotated = DOMAIN was \ rotated
         /\ \A k \in DOMAIN was \ rotated : set[k] = was[k]

\* C16 witness: a refresh has set a cookie with another access token and
\* another token_exp than the presented one, for the same course and expiry.
C16_Witness ==
  /\ tokenRes.refreshed
  /\ tokenRes.setCookie # NoCookie
  /\ PayloadOf(tokenRes.cookie).courseId = "course-1"
  /\ PayloadOf(tokenRes.setCookie).access_token # PayloadOf(tokenRes.cookie).access_token
  /\ PayloadOf(tokenRes.setCookie).token_exp # PayloadOf(tokenRes.cookie).token_exp
  /\ PayloadOf(tokenRes.setCookie).exp = MaxClock + SESSION_TTL

\* The lti_session cookie is a signed session whose exp has passed at time t.
SessionExpired(cookie, t) ==
  /\ Verifies(cookie)
  /\ Has(PayloadOf(cookie), "exp")
  /\ PayloadOf(cookie).exp # 0
  /\ PayloadOf(cookie).exp < t

\* C17: a getTokenFromCookie call made after the session's exp returns no
\* access token and sends no refresh request, even when the access token is
\* unexpired or a refresh token is present; a refresh never moves exp (C16), so
\* this holds along any sequence of calls and refreshes.
C17_NoTokenAfterSessionExpiry ==
  [][SessionExpired(jar, now) =>
        /\ BagCardinality(calls') <= BagCardinality(calls)
        /\ (tokenRes' # tokenRes /\ ~tokenRes'.refreshed)
              => ~Has(tokenRes'.result, "token")]_vars

\* C17 witness: a call on a signed session past its exp, whose access token was
\* still unexpired and which held a refresh token, returned null.
C17_Witness ==
  /\ tokenRes # NoTokenResult
  /\ ~tokenRes.refreshed
  /\ SessionExpired(tokenRes.cookie, tokenRes.at)
  /\ PayloadOf(tokenRes.cookie).token_exp > tokenRes.at
  /\ Field(PayloadOf(tokenRes.cookie), "refresh_token") = "rt1"
  /\ tokenRes.result = Null

\* C20: getTokenFromCookie never throws: whatever the cookie value and whatever
\* the platform does on refresh, it returns {token} or null; null when the
\* access token is expired and there is no refresh token, and null when the
\* refresh request fails.
C20_NeverThrows ==
  /\ tokenRes.result = Null \/ Has(tokenRes.result, "token")
  /\ (tokenRes.refreshed /\ ~tokenRes.resp.ok) => tokenRes.result = Null
  /\ (/\ tokenRes # NoTokenResult
      /\ ~tokenRes.refreshed
      /\ tokenRes.session # Null
      /\ ~(Has(tokenRes.session, "token_exp") /\ tokenRes.session.token_exp > tokenRes.at)
      /\ ~Truthy(tokenRes.session, "refresh_token"))
     => tokenRes.result = Null

\* C35 as claimed: against a platform that invalidates a refresh token once it
\* has been used, with requests that present the same TokenSession cookie
\* while its access token is expired running concurrently, no request is
\* answered without a token ('no valid session'), and the session cookie the
\* browser holds carries the refresh token the platform issued last.
C35_ConcurrentRefreshesSucceed ==
  /\ tokenRes # NoTokenResult => tokenRes.result # Null
  /\ PayloadOf(jar).refresh_token = latest

\* The part of C35 that holds: the cookie carries the refresh token issued last.
C35_CookieCarriesLatest == PayloadOf(jar).refresh_token = latest

\* C36 as claimed: no request stays suspended for ever, whether or not the
\* platform answers: a /launch suspended at the key fetch is eventually
\* answered, a /oauth/callback suspended at the code exchange is eventually
\* answered, and a getTokenFromCookie call suspended at the refresh eventually
\* returns.
C36_EveryRequestEnds ==
  /\ (pending # EmptyBag) ~> (launchRes # NoLaunchResponse)
  /\ (exchanges # EmptyBag) ~> (cbRes # NoCallbackResponse)
  /\ (calls # EmptyBag) ~> (tokenRes # NoTokenResult)

\* ---------------------------------------------------------------- REST claims
\* C25 as claimed: every REST call a UI request sends (listRubrics, getRubric,
\* createRubric) carries as its Bearer token the access token that
\* getTokenFromCookie returned for the request's TokenSession, never the token
\* of the application's client_credentials grant.
C25_RestUsesSessionToken ==
  rest.sent => (rest.bearer = rest.bbToken /\ rest.bearer # APP_TOKEN)

\* ---------------------------------------------------------------- restart claims
\* C24: after a restart with the same secret, /oauth/callback still accepts
\* (sends the code exchange for) an OAuthState cookie minted before the
\* restart, getTokenFromCookie still accepts (verifies to its payload) the
\* TokenSession cookie the browser held at the restart, and /launch rejects
\* every token naming a nonce issued before the restart.
C24_CookiesSurviveRestartNoncesDoNot ==
  boot.restarts > 0 =>
    /\ \A i \in 1..boot.starts :
         (/\ CallbackAnswered
          /\ cbRes.error = Undefined
          /\ cbRes.cookie = OauthSignCookie(ostates[i])
          /\ cbRes.state = ostates[i].state) => cbRes.exchanged
    /\ (/\ tokenRes # NoTokenResult
        /\ tokenRes.cookie = boot.jar
        /\ Verifies(boot.jar)
        /\ ~SessionExpired(boot.jar, tokenRes.at)) => tokenRes.session = PayloadOf(boot.jar)
    /\ (JwtLaunchEnded /\ launchRes.token.nonce \in 1..boot.drawn) => Rejected

\* C24 witness: after a restart that found a nonce outstanding, a callback
\* presenting the OAuthState cookie minted before the restart was let through
\* to the exchange and redirected, while the nonce is outstanding no more.
C24_Witness ==
  /\ boot.restarts > 0
  /\ boot.starts > 0
  /\ cbRes.cookie = OauthSignCookie(ostates[1])
  /\ cbRes.exchanged
  /\ cbRes.status = 302
  /\ boot.drawn > 0
  /\ accepted[1] = 0
  /\ ~NoncesHas(nonces, 1)

\* After a restart, a launch with a valid token naming a nonce issued before
\* the restart, never consumed, was rejected at the nonce check.
C24_NonceRejected ==
  /\ boot.restarts > 0
  /\ JwtLaunchEnded
  /\ launchRes.token.nonce \in 1..boot.drawn
  /\ accepted[launchRes.token.nonce] = 0
  /\ launchRes.body = "Invalid or expired nonce"

\* After a restart, getTokenFromCookie returned the token of the TokenSession
\* cookie the browser held at the restart.
C24_TokenSessionAccepted ==
  /\ boot.restarts > 0
  /\ boot.jar # NoCookie
  /\ tokenRes.cookie = boot.jar
  /\ Has(tokenRes.result, "token")

\* ================================================================ codec runs
\* One object is signed by one module's signCookie; a cookie value built from
\* the minted one and from what a client without the secret can compute is
\* presented to one module's verifyCookie.

\* The objects the code hands to signCookie: an IdentitySession (lti.js:176),
\* an OAuthState (oauth.js:83), a TokenSession (oauth.js:140-146).
CodecPayloads ==
  {[courseId |-> "c1", exp |-> e] : e \in 0..(MaxTime + 1)}
  \cup {[state |-> "st1", courseId |-> c, ts |-> 1] : c \in {"c1", Undefined}}
  \cup {[courseId |-> "c1", access_token |-> "at1", refresh_token |-> r,
         token_exp |-> 2, exp |-> e] : r \in {"rt1", Undefined}, e \in {1, MaxTime + 1}}

\* A JSON object: no property holds undefined.
IsJson(data) == \A k \in DOMAIN data : ~(k \in StringFields /\ data[k] = Undefined)

\* The payload a forger would like to see accepted.
ForgedData == [courseId |-> "c2", exp |-> MaxTime + 1]

\* Segments a client holding the minted cookie can write down.
CodecSegments(minted) ==
  LET forged == ToBase64url(JsonStringify(ForgedData))
  IN  {minted[1], minted[2], forged, Hmac(AttackerSecret, minted[1]),
       Hmac(AttackerSecret, forged), Junk, EmptySeg}

PresentableCookies(minted) ==
  LET segs == CodecSegments(minted)
  IN  {NoCookie}
      \cup {<<a>> : a \in segs}
      \cup {<<a, b>> : a \in segs, b \in segs}
      \cup {<<a, b, c>> : a \in segs, b \in segs, c \in {Junk, minted[2]}}

CodecSign ==
  /\ cpc = "sign"
  /\ cminted' = IF cminter = "lti" THEN LtiSignCookie(cdata, LtiCookieSecret)
                                   ELSE OauthSignCookie(cdata)
  /\ cpc' = "present"
  /\ UNCHANGED <<now, envSecret, boot, cdata, cminter, ccookie, cverifier, cout, cnow>>
  /\ UNCHANGED <<launchVars, tokenVars, oauthVars>>

CodecPresent ==
  /\ cpc = "present"
  /\ \E c \in PresentableCookies(cminted) : ccookie' = c
  /\ cpc' = "verify"
  /\ UNCHANGED <<now, envSecret, boot, cdata, cminter, cminted, cverifier, cout, cnow>>
  /\ UNCHANGED <<launchVars, tokenVars, oauthVars>>

CodecVerify ==
  /\ cpc = "verify"
  /\ \E v \in {"lti", "oauth"} :
       /\ cverifier' = v
       /\ cout' = IF v = "lti" THEN LtiVerifyCookie(ccookie, LtiCookieSecret)
                               ELSE OauthVerifyCookie(ccookie, now)
  /\ cnow' = now
  /\ cpc' = "done"
  /\ UNCHANGED <<now, envSecret, boot, cdata, cminter, cminted, ccookie>>
  /\ UNCHANGED <<launchVars, tokenVars, oauthVars>>

CodecTick ==
  /\ cpc # "done"
  /\ Tick
  /\ UNCHANGED <<envSecret, boot, codecVars, launchVars, tokenVars, oauthVars>>

InitCodec ==
  /\ now = 1
  /\ envSecret \in EnvSecrets
  /\ cdata \in CodecPayloads
  /\ cminter \in {"lti", "oauth"}
  /\ cminted = NoCookie
  /\ ccookie = NoCookie
  /\ cverifier = "none"
  /\ cout = Null
  /\ cnow = 0
  /\ cpc = "sign"
  /\ LaunchIdle
  /\ TokenIdle
  /\ OAuthIdle
  /\ boot = FirstBoot

NextCodec == CodecSign \/ CodecPresent \/ CodecVerify \/ CodecTick

SpecCodec == InitCodec /\ [][NextCodec]_vars

\* ---------------------------------------------------------------- codec claims
\* The cookie presented is the minted one, verified by the module that minted it.
RoundTripRun == cpc = "done" /\ ccookie = cminted /\ cverifier = cminter
\* payload.exp is set (truthy) and strictly less than the time verifyCookie read.
ExpPassed(data, t) == "exp" \in DOMAIN data /\ data.exp # 0 /\ data.exp < t

\* C2: verifyCookie (either module) returns a payload only for a cookie whose
\* payload part and signature part are those of the cookie signCookie minted
\* under the process's secret; with either part changed (another payload, a
\* signature under another secret, junk, a missing part) it returns null.
C2_OnlyMintedPartsAccepted ==
  (cpc = "done" /\ cout # Null) =>
      /\ SegmentAt(ccookie, 1) = cminted[1]
      /\ SegmentAt(ccookie, 2) = cminted[2]

\* C2 witness: a forged payload signed under another secret was presented to
\* the module that minted, and verifyCookie returned null.
C2_Witness ==
  LET forged == ToBase64url(JsonStringify(ForgedData))
  IN  /\ cpc = "done"
      /\ cverifier = cminter
      /\ ccookie = <<forged, Hmac(AttackerSecret, forged)>>
      /\ cout = Null

\* C3 as claimed: for every JSON payload p and both codecs, verify(sign(p))
\* returns p, payloads carrying exp included.
C3_RoundTripAlways ==
  (RoundTripRun /\ IsJson(cdata)) => cout = cdata

\* C3 amended: verify(sign(p)) returns p for every JSON payload p in lti.js,
\* and in oauth.js for every p whose exp is absent, zero, or not less than
\* the time of verification; oauth.js returns null for the others.
C3_RoundTripUnlessExpired ==
  (RoundTripRun /\ IsJson(cdata)) =>
      cout = IF cverifier = "oauth" /\ ExpPassed(cdata, cnow) THEN Null ELSE cdata

\* C3 witness: oauth.js verified its own cookie carrying an exp that has not
\* passed, after the clock moved, and returned the payload.
C3_Witness ==
  /\ RoundTripRun
  /\ cverifier = "oauth"
  /\ "exp" \in DOMAIN cdata /\ "access_token" \in DOMAIN cdata
  /\ IsJson(cdata)
  /\ cnow > 1
  /\ cdata.exp >= cnow
  /\ cout = cdata

\* C4: verifyCookie returns null for every correctly signed cookie whose
\* payload.exp (a timestamp, so positive) is strictly less than the current
\* time, in lti.js as in oauth.js.
C4_ExpiredCookieRejected ==
  (RoundTripRun /\ "exp" \in DOMAIN cdata /\ cdata.exp > 0 /\ cdata.exp < cnow)
      => cout = Null

\* A cookie value of exactly two '.'-separated segments, neither empty.
WellShaped(cookie) == Len(cookie) = 2 /\ ~Falsy(cookie[1]) /\ ~Falsy(cookie[2])

\* C26 as claimed: verifyCookie, in lti.js as in oauth.js, returns null for
\* every cookie value that is not one payload segment and one signature
\* segment separated by a single '.': one without a '.', one with an empty
\* payload or signature, one with further segments appended.
C26_MalformedShapeRejected ==
  (cpc = "done" /\ ~WellShaped(ccookie)) => cout = Null

====
